---- MODULE Spec2Model ----
(***************************************************************************)
(* A model of GraphSampler (src/GraphSampler.py): a sampler constructed    *)
(* over an undirected simple graph G, and one call of one of its sampling  *)
(* methods.  Random choices (random.choice, random.random, random.shuffle, *)
(* random.sample, set iteration order) are nondeterministic inputs.        *)
(***************************************************************************)
EXTENDS Integers, Sequences, FiniteSets, TLC

\* ---------------------------------------------------------------- bounds
\* node identifiers of the graphs given to the selection methods and to the
\* plain random walk
MaxNodes == 4

\* node identifiers of the graphs given to the other traversals
MaxTraversalNodes == 3

MaxSamples == 3

MaxDepth == 2

MaxInit == 2

\* random.random() is drawn from the grid {0, 1/DrawDen, ..., (DrawDen-1)/DrawDen}
DrawDen == 3

Universe == 1..MaxNodes

TraversalUniverse == 1..MaxTraversalNodes

VARIABLES
    Gnodes,         \* self.G.nodes(): the nodes of G in insertion order
    Gedges,         \* self.G.edges(): a set of unordered pairs {u, v}
    alg,            \* the method being executed, "idle" before the call
    pc,             \* position inside the method; "idle" before the call,
                    \* "done" after a return, "error" after a raise
    start_node,     \* start_node (the walks) / initial_node (depth_first_sampling)
    initial_nodes,  \* initial_nodes (snowball, breadth first), in iteration order
    sample_size,    \* sample_size / num_samples
    expand_depth,   \* expand_depth
    sampled_nodes,  \* sampled_graph's nodes / sampled_nodes
    sampled_edges,  \* sampled_graph's edges
    current_node,   \* current_node
    visited,        \* visited (random_walk_sampling)
    next_node,      \* next_node
    u,              \* numerator of the last random.random() draw
    to_expand,      \* to_expand (snowball)
    pending,        \* the nodes of to_expand (snowball) or of nodes (induced edge)
                    \* the for loop has not reached yet
    next_expand,    \* next_expand (snowball)
    round,          \* number of completed iterations of "for _ in range(expand_depth)"
    node,           \* node (loop variable)
    neighbors,      \* the part of the shuffled neighbors list still to iterate
    stack,          \* stack (depth_first_sampling)
    queue,          \* queue (breadth_first_sampling)
    result,         \* the returned list (sampled_edges of induced_edge_sampling
                    \* while it is built)
    error           \* the exception that ended the call, "" when none

vars == <<Gnodes, Gedges, alg, pc, start_node, initial_nodes, sample_size,
          expand_depth, sampled_nodes, sampled_edges, current_node, visited,
          next_node, u, to_expand, pending, next_expand, round, node,
          neighbors, stack, queue, result, error>>

\* ------------------------------------------------------- the graph view
Range(s) == {s[i] : i \in 1..Len(s)}

Min(a, b) == IF a < b THEN a ELSE b

Pairs(S) == {{a, b} : a \in S, b \in S} \ {{a} : a \in S}

RECURSIVE PermsOf(_)
PermsOf(S) ==
    IF S = {} THEN {<<>>}
    ELSE UNION {{<<x>> \o p : p \in PermsOf(S \ {x})} : x \in S}

RECURSIVE Ascending(_)
Ascending(S) ==
    IF S = {} THEN <<>>
    ELSE LET m == CHOOSE x \in S : \A y \in S : x <= y
         IN <<m>> \o Ascending(S \ {m})

V == Range(Gnodes)

HasNode(n) == n \in V

\* every other node of G reported as a neighbor
NeighborsAnyNode(n) == V \ {n}

\* G.neighbors(n), for n in G
Neighbors(n) == {m \in V : {n, m} \in Gedges}

\* G.degree(n)
Degree(n) == Cardinality(Neighbors(n))

\* list(G.neighbors(n)) followed by random.shuffle: any order
Shuffled(S) == PermsOf(S)

\* list(a_set): the elements, each once, in the set's iteration order
ListOf(S) == PermsOf(S)

\* the sequences of at most n pairwise distinct elements of S
DistinctSeqs(S, n) ==
    UNION {PermsOf(T) : T \in {T \in SUBSET S : Cardinality(T) <= n}}

\* ---------------------------------------------------------- construction
graph == <<Gnodes, Gedges>>

params == <<start_node, initial_nodes, sample_size, expand_depth>>

walk == <<current_node, visited, next_node, u>>

frontier ==
    <<to_expand, pending, next_expand, round, node, neighbors, stack, queue>>

\* no method has been called: no argument and no local variable is bound yet
\* (0 is no node, "" no exception)
Idle ==
    /\ alg = "idle" /\ pc = "idle"
    /\ start_node = 0 /\ initial_nodes = <<>>
    /\ sample_size = 0 /\ expand_depth = 0
    /\ sampled_nodes = {} /\ sampled_edges = {}
    /\ current_node = 0 /\ visited = {} /\ next_node = 0 /\ u = 0
    /\ to_expand = {} /\ pending = {} /\ next_expand = {} /\ round = 0
    /\ node = 0 /\ neighbors = <<>> /\ stack = <<>> /\ queue = <<>>
    /\ result = <<>> /\ error = ""

\* GraphSampler(G): G is any simple undirected graph over a subset of
\* Universe, its nodes inserted in any order
Init ==
    /\ \E Vs \in SUBSET Universe :
          /\ Gnodes \in PermsOf(Vs)
          /\ Gedges \in SUBSET Pairs(Vs)
    /\ Idle

\* the nodes were inserted in ascending order (the order is observed by
\* degree_based_node_sampling alone: every other method shuffles or chooses)
InitAscending ==
    /\ \E Vs \in SUBSET Universe :
          /\ Gnodes = Ascending(Vs)
          /\ Gedges \in SUBSET Pairs(Vs)
    /\ Idle

\* the same, for a graph over a subset of TraversalUniverse
InitTraversal ==
    /\ \E Vs \in SUBSET TraversalUniverse :
          /\ Gnodes = Ascending(Vs)
          /\ Gedges \in SUBSET Pairs(Vs)
    /\ Idle

\* a graph over a subset of TraversalUniverse, its nodes inserted in any order
InitTraversalAnyOrder ==
    /\ \E Vs \in SUBSET TraversalUniverse :
          /\ Gnodes \in PermsOf(Vs)
          /\ Gedges \in SUBSET Pairs(Vs)
    /\ Idle

\* ------------------------------------------- metropolis_hastings_sampling
\* one node too many: "<=" for "<"
WalkContinuesOffByOne(count, target) == count <= target

\* the loop condition of both walks:
\* "while sampled_graph.number_of_nodes() < num_samples"
WalkContinues(count, target) == count < target

\* the degree in the sample taken for the degree in G
MHCurrentDegreeInSample(cur) == Cardinality({e \in sampled_edges : cur \in e})

\* current_degree = self.G.degree(current_node)
MHCurrentDegree(cur) == Degree(cur)

\* min(1, next_degree / current_degree) as <<numerator, denominator>>
AcceptanceRatio(cur, nxt) ==
    IF Degree(nxt) >= MHCurrentDegree(cur) THEN <<1, 1>>
    ELSE <<Degree(nxt), MHCurrentDegree(cur)>>

\* random.random() < acceptance_ratio, for the draw k / DrawDen
Accepted(cur, nxt, k) ==
    k * AcceptanceRatio(cur, nxt)[2] < AcceptanceRatio(cur, nxt)[1] * DrawDen

\* a rejected step that advances all the same
MHAdvanceAlways(cur, nxt, accepted) == nxt

\* current_node after the if/else of lines 33-38
MHAdvance(cur, nxt, accepted) == IF accepted THEN nxt ELSE cur

CallMH(s, k) ==
    /\ pc = "idle"
    /\ alg' = "mh" /\ pc' = "loop"
    /\ start_node' = s /\ sample_size' = k
    /\ sampled_nodes' = {s} /\ sampled_edges' = {}
    /\ current_node' = s
    /\ UNCHANGED <<graph, initial_nodes, expand_depth, visited, next_node, u,
                   frontier, result, error>>

\* one iteration of the while loop: pick next_node, compute the ratio (the
\* division raises ZeroDivisionError for a zero current_degree), draw, accept
\* or reject
MHStep(n, k) ==
    /\ alg = "mh" /\ pc = "loop"
    /\ WalkContinues(Cardinality(sampled_nodes), sample_size)
    /\ HasNode(current_node)
    /\ n \in Neighbors(current_node)
    /\ k \in 0..(DrawDen - 1)
    /\ next_node' = n
    /\ IF MHCurrentDegree(current_node) = 0
       THEN /\ pc' = "error" /\ error' = "ZeroDivisionError"
            /\ UNCHANGED <<u, sampled_nodes, sampled_edges, current_node>>
       ELSE /\ u' = k
            /\ IF Accepted(current_node, n, k)
               THEN /\ sampled_nodes' = sampled_nodes \cup {n}
                    /\ sampled_edges' = sampled_edges \cup {{current_node, n}}
               ELSE /\ sampled_nodes' = sampled_nodes \cup {current_node}
                    /\ sampled_edges' = sampled_edges
            /\ current_node' =
                  MHAdvance(current_node, n, Accepted(current_node, n, k))
            /\ UNCHANGED <<pc, error>>
    /\ UNCHANGED <<graph, alg, params, visited, frontier, result>>

\* self.G.neighbors(current_node) raises NetworkXError for a node not in G
WalkRaise ==
    /\ alg \in {"mh", "rw"} /\ pc = "loop"
    /\ WalkContinues(Cardinality(sampled_nodes), sample_size)
    /\ ~HasNode(current_node)
    /\ pc' = "error" /\ error' = "NetworkXError"
    /\ UNCHANGED <<graph, alg, params, sampled_nodes, sampled_edges, walk,
                   frontier, result>>

\* a dead end made fatal: random.choice on the empty neighbor list
WalkReturnRaising ==
    /\ alg \in {"mh", "rw"} /\ pc = "loop"
    /\ \/ ~WalkContinues(Cardinality(sampled_nodes), sample_size)
       \/ HasNode(current_node) /\ Neighbors(current_node) = {}
    /\ IF WalkContinues(Cardinality(sampled_nodes), sample_size)
       THEN pc' = "error" /\ error' = "IndexError"
       ELSE pc' = "done" /\ error' = error
    /\ UNCHANGED <<graph, alg, params, sampled_nodes, sampled_edges, walk,
                   frontier, result>>

\* the loop condition fails, or the dead-end break: return sampled_graph
WalkReturn ==
    /\ alg \in {"mh", "rw"} /\ pc = "loop"
    /\ \/ ~WalkContinues(Cardinality(sampled_nodes), sample_size)
       \/ HasNode(current_node) /\ Neighbors(current_node) = {}
    /\ pc' = "done"
    /\ UNCHANGED <<graph, alg, params, sampled_nodes, sampled_edges, walk,
                   frontier, result, error>>

\* ---------------------------------------------------- random_walk_sampling
\* "if next_node not in visited"
RWIsNew(n, seen) == n \notin seen

CallRW(s, k) ==
    /\ pc = "idle"
    /\ alg' = "rw" /\ pc' = "loop"
    /\ start_node' = s /\ sample_size' = k
    /\ sampled_nodes' = {s} /\ sampled_edges' = {}
    /\ current_node' = s /\ visited' = {s}
    /\ UNCHANGED <<graph, initial_nodes, expand_depth, next_node, u,
                   frontier, result, error>>

RWStep(n) ==
    /\ alg = "rw" /\ pc = "loop"
    /\ WalkContinues(Cardinality(sampled_nodes), sample_size)
    /\ HasNode(current_node)
    /\ n \in Neighbors(current_node)
    /\ next_node' = n
    /\ IF RWIsNew(n, visited)
       THEN /\ sampled_nodes' = sampled_nodes \cup {n}
            /\ sampled_edges' = sampled_edges \cup {{current_node, n}}
            /\ visited' = visited \cup {n}
       ELSE UNCHANGED <<sampled_nodes, sampled_edges, visited>>
    /\ current_node' = n
    /\ UNCHANGED <<graph, alg, pc, params, u, frontier, result, error>>

Sizes == 0..MaxSamples

NextMH ==
    \/ \E s \in TraversalUniverse, k \in Sizes : CallMH(s, k)
    \/ \E n \in Universe, k \in 0..(DrawDen - 1) : MHStep(n, k)
    \/ WalkRaise
    \/ WalkReturn

NextRW ==
    \/ \E s \in Universe, k \in Sizes : CallRW(s, k)
    \/ \E n \in Universe : RWStep(n)
    \/ WalkRaise
    \/ WalkReturn

SpecMH == InitTraversal /\ [][NextMH]_vars

SpecRW == InitAscending /\ [][NextRW]_vars

\* ------------------------------------------------------ snowball_sampling
\* every other node of G taken for a neighbor
SnowballCandidatesAll(n) == V \ {n}

\* the candidates the inner for loop iterates: G.neighbors(node)
SnowballCandidates(n) == Neighbors(n)

CallSnowball(init, k, d) ==
    /\ pc = "idle"
    /\ alg' = "snowball" /\ pc' = "round"
    /\ initial_nodes' = init /\ sample_size' = k /\ expand_depth' = d
    /\ sampled_nodes' = Range(init) /\ to_expand' = Range(init)
    /\ round' = 0
    /\ UNCHANGED <<graph, start_node, sampled_edges, walk, pending, next_expand,
                   node, neighbors, stack, queue, result, error>>

\* "for _ in range(expand_depth)": the next round starts with an empty next_expand
SnowballRound ==
    /\ alg = "snowball" /\ pc = "round"
    /\ round < expand_depth
    /\ next_expand' = {} /\ pending' = to_expand
    /\ pc' = "nodes"
    /\ UNCHANGED <<graph, alg, params, sampled_nodes, sampled_edges, walk,
                   to_expand, round, node, neighbors, stack, queue, result, error>>

\* "for node in to_expand": the set's next node, its neighbors shuffled
SnowballPick(n, perm) ==
    /\ alg = "snowball" /\ pc = "nodes"
    /\ n \in pending /\ HasNode(n)
    /\ perm \in Shuffled(SnowballCandidates(n))
    /\ node' = n /\ pending' = pending \ {n}
    /\ neighbors' = perm
    /\ pc' = IF perm = <<>> THEN "nodes" ELSE "for"
    /\ UNCHANGED <<graph, alg, params, sampled_nodes, sampled_edges, walk,
                   to_expand, next_expand, round, stack, queue, result, error>>

\* self.G.neighbors(node) raises NetworkXError for a node not in G
SnowballRaise(n) ==
    /\ alg = "snowball" /\ pc = "nodes"
    /\ n \in pending /\ ~HasNode(n)
    /\ node' = n /\ pending' = pending \ {n}
    /\ pc' = "error" /\ error' = "NetworkXError"
    /\ UNCHANGED <<graph, alg, params, sampled_nodes, sampled_edges, walk,
                   to_expand, next_expand, round, neighbors, stack, queue, result>>

\* "for neighbor in neighbors": admit it, skip it, or break
SnowballNeighbor ==
    /\ alg = "snowball" /\ pc = "for"
    /\ neighbors # <<>>
    /\ LET neighbor == Head(neighbors) IN
       IF Cardinality(sampled_nodes) < sample_size
       THEN /\ IF neighbor \notin sampled_nodes
               THEN /\ sampled_nodes' = sampled_nodes \cup {neighbor}
                    /\ next_expand' = next_expand \cup {neighbor}
               ELSE UNCHANGED <<sampled_nodes, next_expand>>
            /\ neighbors' = Tail(neighbors)
            /\ pc' = IF Tail(neighbors) = <<>> THEN "nodes" ELSE "for"
       ELSE /\ neighbors' = <<>>
            /\ pc' = "nodes"
            /\ UNCHANGED <<sampled_nodes, next_expand>>
    /\ UNCHANGED <<graph, alg, params, sampled_edges, walk, to_expand, pending,
                   round, node, stack, queue, result, error>>

\* the round is over: "to_expand = next_expand", then the size test of line 93
SnowballEndRound ==
    /\ alg = "snowball" /\ pc = "nodes"
    /\ pending = {}
    /\ to_expand' = next_expand
    /\ round' = round + 1
    /\ pc' = IF Cardinality(sampled_nodes) >= sample_size THEN "return" ELSE "round"
    /\ UNCHANGED <<graph, alg, params, sampled_nodes, sampled_edges, walk,
                   pending, next_expand, node, neighbors, stack, queue, result,
                   error>>

\* after the break, or with range(expand_depth) exhausted:
\* "return list(sampled_nodes)"
SnowballReturn(lst) ==
    /\ alg = "snowball"
    /\ pc = "return" \/ (pc = "round" /\ round >= expand_depth)
    /\ lst \in ListOf(sampled_nodes)
    /\ result' = lst /\ pc' = "done"
    /\ UNCHANGED <<graph, alg, params, sampled_nodes, sampled_edges, walk,
                   frontier, error>>

\* --------------------------------------------------- depth_first_sampling
\* one node too many: "<=" for "<"
DFSContinuesOffByOne(count, size) == count <= size

\* the second conjunct of "while stack and len(sampled_nodes) < sample_size"
DFSContinues(count, size) == count < size

\* the neighbors cut to the room that is left under the target
DFSPushCapped(stk, nbrs, count, size) ==
    stk \o SubSeq(nbrs, 1, Min(Len(nbrs), IF size > count THEN size - count ELSE 0))

\* lines 112-114: every neighbor is appended while the sample is below the target
RECURSIVE DFSPush(_, _, _, _)
DFSPush(stk, nbrs, count, size) ==
    IF nbrs = <<>> THEN stk
    ELSE DFSPush(IF count < size THEN Append(stk, Head(nbrs)) ELSE stk,
                 Tail(nbrs), count, size)

\* the top of the stack read without being removed
DFSRestPeek(stk) == stk

\* node = stack.pop(): what is left of the stack
DFSRest(stk) == SubSeq(stk, 1, Len(stk) - 1)

CallDFS(s, k) ==
    /\ pc = "idle"
    /\ alg' = "dfs" /\ pc' = "loop"
    /\ start_node' = s /\ sample_size' = k
    /\ sampled_nodes' = {} /\ stack' = <<s>>
    /\ UNCHANGED <<graph, initial_nodes, expand_depth, sampled_edges, walk,
                   to_expand, pending, next_expand, round, node, neighbors,
                   queue, result, error>>

\* one iteration of the while loop
DFSStep(perm) ==
    /\ alg = "dfs" /\ pc = "loop"
    /\ stack # <<>> /\ DFSContinues(Cardinality(sampled_nodes), sample_size)
    /\ LET top == stack[Len(stack)]
           rest == DFSRest(stack)
       IN /\ node' = top
          /\ IF top \notin sampled_nodes
             THEN /\ HasNode(top)
                  /\ perm \in Shuffled(Neighbors(top))
                  /\ sampled_nodes' = sampled_nodes \cup {top}
                  /\ neighbors' = perm
                  /\ stack' = DFSPush(rest, perm, Cardinality(sampled_nodes) + 1,
                                      sample_size)
             ELSE /\ perm = <<>>
                  /\ stack' = rest
                  /\ UNCHANGED <<sampled_nodes, neighbors>>
    /\ UNCHANGED <<graph, alg, pc, params, sampled_edges, walk, to_expand,
                   pending, next_expand, round, queue, result, error>>

\* the popped node was added, and self.G.neighbors(node) raises NetworkXError
DFSRaise ==
    /\ alg = "dfs" /\ pc = "loop"
    /\ stack # <<>> /\ DFSContinues(Cardinality(sampled_nodes), sample_size)
    /\ LET top == stack[Len(stack)] IN
          /\ top \notin sampled_nodes /\ ~HasNode(top)
          /\ node' = top
          /\ sampled_nodes' = sampled_nodes \cup {top}
    /\ stack' = SubSeq(stack, 1, Len(stack) - 1)
    /\ pc' = "error" /\ error' = "NetworkXError"
    /\ UNCHANGED <<graph, alg, params, sampled_edges, walk, to_expand, pending,
                   next_expand, round, neighbors, queue, result>>

DFSReturn(lst) ==
    /\ alg = "dfs" /\ pc = "loop"
    /\ stack = <<>> \/ ~DFSContinues(Cardinality(sampled_nodes), sample_size)
    /\ lst \in ListOf(sampled_nodes)
    /\ result' = lst /\ pc' = "done"
    /\ UNCHANGED <<graph, alg, params, sampled_nodes, sampled_edges, walk,
                   frontier, error>>

\* ------------------------------------------------- breadth_first_sampling
CallBFS(init, k) ==
    /\ pc = "idle"
    /\ alg' = "bfs" /\ pc' = "loop"
    /\ initial_nodes' = init /\ sample_size' = k
    /\ sampled_nodes' = Range(init) /\ queue' = init
    /\ UNCHANGED <<graph, start_node, expand_depth, sampled_edges, walk,
                   to_expand, pending, next_expand, round, node, neighbors,
                   stack, result, error>>

\* "node = queue.popleft()", its neighbors shuffled
BFSPop(perm) ==
    /\ alg = "bfs" /\ pc = "loop"
    /\ queue # <<>> /\ Cardinality(sampled_nodes) < sample_size
    /\ HasNode(Head(queue))
    /\ perm \in Shuffled(Neighbors(Head(queue)))
    /\ node' = Head(queue) /\ queue' = Tail(queue)
    /\ neighbors' = perm
    /\ pc' = IF perm = <<>> THEN "loop" ELSE "for"
    /\ UNCHANGED <<graph, alg, params, sampled_nodes, sampled_edges, walk,
                   to_expand, pending, next_expand, round, stack, result, error>>

\* self.G.neighbors(node) raises NetworkXError for a node not in G
BFSRaise ==
    /\ alg = "bfs" /\ pc = "loop"
    /\ queue # <<>> /\ Cardinality(sampled_nodes) < sample_size
    /\ ~HasNode(Head(queue))
    /\ node' = Head(queue) /\ queue' = Tail(queue)
    /\ pc' = "error" /\ error' = "NetworkXError"
    /\ UNCHANGED <<graph, alg, params, sampled_nodes, sampled_edges, walk,
                   to_expand, pending, next_expand, round, neighbors, stack, result>>

\* "for neighbor in neighbors": admit an unvisited neighbor, break at the target
BFSNeighbor ==
    /\ alg = "bfs" /\ pc = "for"
    /\ neighbors # <<>>
    /\ LET neighbor == Head(neighbors)
           admit == neighbor \notin sampled_nodes
           full == admit /\ Cardinality(sampled_nodes) + 1 >= sample_size
       IN /\ sampled_nodes' = IF admit THEN sampled_nodes \cup {neighbor}
                              ELSE sampled_nodes
          /\ queue' = IF admit THEN Append(queue, neighbor) ELSE queue
          /\ neighbors' = IF full THEN <<>> ELSE Tail(neighbors)
          /\ pc' = IF full \/ Tail(neighbors) = <<>> THEN "loop" ELSE "for"
    /\ UNCHANGED <<graph, alg, params, sampled_edges, walk, to_expand, pending,
                   next_expand, round, node, stack, result, error>>

BFSReturn(lst) ==
    /\ alg = "bfs" /\ pc = "loop"
    /\ queue = <<>> \/ Cardinality(sampled_nodes) >= sample_size
    /\ lst \in ListOf(sampled_nodes)
    /\ result' = lst /\ pc' = "done"
    /\ UNCHANGED <<graph, alg, params, sampled_nodes, sampled_edges, walk,
                   frontier, error>>

\* the outcomes random.shuffle can have in the next loop iteration
DFSShuffles ==
    IF stack = <<>> THEN {} ELSE {<<>>} \cup Shuffled(Neighbors(stack[Len(stack)]))

BFSShuffles ==
    IF queue = <<>> THEN {} ELSE Shuffled(Neighbors(Head(queue)))

\* initial_nodes: at most MaxInit distinct nodes, in any order
Inits == DistinctSeqs(TraversalUniverse, MaxInit)

\* snowball_sampling reads initial_nodes through set(initial_nodes) alone,
\* so one order for each set is every input it can tell apart
InitSets ==
    {Ascending(T) : T \in {T \in SUBSET TraversalUniverse : Cardinality(T) <= MaxInit}}

NextSnowball ==
    \/ \E init \in InitSets, k \in Sizes, d \in 0..MaxDepth :
          CallSnowball(init, k, d)
    \/ SnowballRound
    \/ \E n \in Universe : \E perm \in Shuffled(SnowballCandidates(n)) :
          SnowballPick(n, perm)
    \/ \E n \in Universe : SnowballRaise(n)
    \/ SnowballNeighbor
    \/ SnowballEndRound
    \/ \E lst \in ListOf(sampled_nodes) : SnowballReturn(lst)

NextDFS ==
    \/ \E s \in TraversalUniverse, k \in Sizes : CallDFS(s, k)
    \/ \E perm \in DFSShuffles : DFSStep(perm)
    \/ DFSRaise
    \/ \E lst \in ListOf(sampled_nodes) : DFSReturn(lst)

NextBFS ==
    \/ \E init \in Inits, k \in Sizes : CallBFS(init, k)
    \/ \E perm \in BFSShuffles : BFSPop(perm)
    \/ BFSRaise
    \/ BFSNeighbor
    \/ \E lst \in ListOf(sampled_nodes) : BFSReturn(lst)

SpecSnowball == InitTraversal /\ [][NextSnowball]_vars

SpecDFS == InitTraversal /\ [][NextDFS]_vars

SpecBFS == InitTraversal /\ [][NextBFS]_vars

NextFrontier == NextDFS \/ NextBFS

SpecFrontier == InitTraversal /\ [][NextFrontier]_vars

NextSearch == NextSnowball \/ NextDFS \/ NextBFS

\* The interpreter runs the call on: a step that can be taken is taken.
SpecSearchFair == InitTraversal /\ [][NextSearch]_vars /\ WF_vars(NextSearch)

\* --------------------------------------------------- random_node_sampling
\* the ways to pick k pairwise distinct positions of a list of n elements
Selections(n, k) ==
    UNION {PermsOf(T) : T \in {T \in SUBSET (1..n) : Cardinality(T) = k}}

\* random.choices: k positions, repetitions allowed
RandomSampleWithReplacement(population, k) ==
    IF k < 0 THEN {[raised |-> TRUE, value |-> <<>>]}
    ELSE {[raised |-> FALSE, value |-> [i \in 1..k |-> population[idx[i]]]] :
             idx \in [1..k -> 1..Len(population)]}

\* shuffle and slice, as random_edge_sampling does: no error for a short list
RandomSampleTruncating(population, k) ==
    {[raised |-> FALSE, value |-> SubSeq(p, 1, Min(k, Len(p)))] :
        p \in PermsOf(Range(population))}

\* random.sample(population, k): ValueError unless 0 <= k <= len(population),
\* else the elements at k distinct positions, in selection order
RandomSample(population, k) ==
    IF k < 0 \/ k > Len(population)
    THEN {[raised |-> TRUE, value |-> <<>>]}
    ELSE {[raised |-> FALSE, value |-> [i \in 1..k |-> population[idx[i]]]] :
             idx \in Selections(Len(population), k)}

RandomNodeSampling(k) ==
    /\ pc = "idle"
    /\ alg' = "rnode" /\ sample_size' = k
    /\ \E out \in RandomSample(Gnodes, k) :
          IF out.raised
          THEN /\ pc' = "error" /\ error' = "ValueError"
               /\ result' = result
          ELSE /\ pc' = "done" /\ error' = error
               /\ result' = out.value
    /\ UNCHANGED <<graph, start_node, initial_nodes, expand_depth, sampled_nodes,
                   sampled_edges, walk, frontier>>

NextRandomNode == \E k \in Sizes : RandomNodeSampling(k)

SpecRandomNode == InitAscending /\ [][NextRandomNode]_vars

\* --------------------------------------------- degree_based_node_sampling
\* reverse=True left out: ascending degree
DegreePrecedesAscending(a, b) == Degree(a) <= Degree(b)

\* a stays ahead of b in sorted(..., key=degree, reverse=True): the sort is
\* stable, so equal degrees keep their order
DegreePrecedes(a, b) == Degree(a) >= Degree(b)

RECURSIVE InsertByDegree(_, _)
InsertByDegree(sorted, x) ==
    IF sorted = <<>> THEN <<x>>
    ELSE IF DegreePrecedes(Head(sorted), x)
         THEN <<Head(sorted)>> \o InsertByDegree(Tail(sorted), x)
         ELSE <<x>> \o sorted

\* sorted(self.G.nodes(), key=lambda x: self.G.degree(x), reverse=True)
RECURSIVE SortedByDegree(_, _)
SortedByDegree(sorted, rest) ==
    IF rest = <<>> THEN sorted
    ELSE SortedByDegree(InsertByDegree(sorted, Head(rest)), Tail(rest))

\* lst[:k] for k >= 0
Prefix(lst, k) == SubSeq(lst, 1, Min(k, Len(lst)))

DegreeBasedNodeSampling(k) ==
    /\ pc = "idle"
    /\ alg' = "degree" /\ sample_size' = k
    /\ result' = Prefix(SortedByDegree(<<>>, Gnodes), k)
    /\ pc' = "done"
    /\ UNCHANGED <<graph, start_node, initial_nodes, expand_depth, sampled_nodes,
                   sampled_edges, walk, frontier, error>>

NextDegree == \E k \in Sizes : DegreeBasedNodeSampling(k)

SpecDegree == Init /\ [][NextDegree]_vars

\* --------------------------------------------------- random_edge_sampling
\* list(self.G.edges()): every edge once, as the pair (u, v) with u the
\* endpoint that comes first in the graph's node order
RECURSIVE EdgesFrom(_, _)
EdgesFrom(order, seen) ==
    IF order = <<>> THEN {}
    ELSE {<<Head(order), m>> : m \in Neighbors(Head(order)) \ seen}
            \cup EdgesFrom(Tail(order), seen \cup {Head(order)})

EdgeList == EdgesFrom(Gnodes, {})

\* random.sample(edges, sample_size) in place of the slice: ValueError when
\* the list is shorter than sample_size
RandomEdgesStrict(edges, k) ==
    IF k > Cardinality(edges) THEN {[raised |-> TRUE, value |-> <<>>]}
    ELSE {[raised |-> FALSE, value |-> Prefix(p, k)] : p \in PermsOf(edges)}

\* random.shuffle(edges); edges[:sample_size]: a short list is no error
RandomEdges(edges, k) ==
    {[raised |-> FALSE, value |-> Prefix(p, k)] : p \in PermsOf(edges)}

RandomEdgeSampling(k) ==
    /\ pc = "idle"
    /\ alg' = "redge" /\ sample_size' = k
    /\ \E out \in RandomEdges(EdgeList, k) :
          IF out.raised
          THEN /\ pc' = "error" /\ error' = "ValueError"
               /\ result' = result
          ELSE /\ pc' = "done" /\ error' = error
               /\ result' = out.value
    /\ UNCHANGED <<graph, start_node, initial_nodes, expand_depth, sampled_nodes,
                   sampled_edges, walk, frontier>>

NextRandomEdge == \E k \in Sizes : RandomEdgeSampling(k)

SpecRandomEdge == InitTraversalAnyOrder /\ [][NextRandomEdge]_vars

\* -------------------------------------------------- induced_edge_sampling
\* the pair appended for a neighbor of the node being iterated
InducedPair(n, neighbor) == <<n, neighbor>>

\* one pair too many: "<=" for "<"
InducedQuotaOpenOffByOne(count, size) == count <= size

\* "if len(sampled_edges) < sample_size"
InducedQuotaOpen(count, size) == count < size

\* the list is shuffled once and read one node per iteration: pending holds
\* the nodes the for loop has not reached, any of which can be the next one
CallInducedEdge(k) ==
    /\ pc = "idle"
    /\ alg' = "iedge" /\ pc' = "nodes"
    /\ sample_size' = k
    /\ result' = <<>>
    /\ pending' = V
    /\ UNCHANGED <<graph, start_node, initial_nodes, expand_depth, sampled_nodes,
                   sampled_edges, walk, to_expand, next_expand, round, node,
                   neighbors, stack, queue, error>>

\* "for node in nodes": the next node, its neighbors shuffled
InducedEdgePick(n, perm) ==
    /\ alg = "iedge" /\ pc = "nodes"
    /\ n \in pending
    /\ perm \in Shuffled(Neighbors(n))
    /\ node' = n /\ pending' = pending \ {n}
    /\ neighbors' = perm
    /\ pc' = IF perm = <<>> THEN "nodes" ELSE "for"
    /\ UNCHANGED <<graph, alg, params, sampled_nodes, sampled_edges, walk,
                   to_expand, next_expand, round, stack, queue, result, error>>

\* "for neighbor in neighbors": append the pair, or return at the quota
InducedEdgeNeighbor ==
    /\ alg = "iedge" /\ pc = "for"
    /\ neighbors # <<>>
    /\ IF InducedQuotaOpen(Len(result), sample_size)
       THEN /\ result' = Append(result, InducedPair(node, Head(neighbors)))
            /\ neighbors' = Tail(neighbors)
            /\ pc' = IF Tail(neighbors) = <<>> THEN "nodes" ELSE "for"
       ELSE /\ pc' = "done"
            /\ UNCHANGED <<result, neighbors>>
    /\ UNCHANGED <<graph, alg, params, sampled_nodes, sampled_edges, walk,
                   to_expand, pending, next_expand, round, node, stack, queue,
                   error>>

\* every node was iterated: the final "return sampled_edges"
InducedEdgeReturn ==
    /\ alg = "iedge" /\ pc = "nodes"
    /\ pending = {}
    /\ pc' = "done"
    /\ UNCHANGED <<graph, alg, params, sampled_nodes, sampled_edges, walk,
                   frontier, result, error>>

NextInducedEdge ==
    \/ \E k \in Sizes : CallInducedEdge(k)
    \/ \E n \in Universe : \E perm \in Shuffled(Neighbors(n)) : InducedEdgePick(n, perm)
    \/ InducedEdgeNeighbor
    \/ InducedEdgeReturn

SpecInducedEdge == InitTraversal /\ [][NextInducedEdge]_vars

NextTraversal == NextMH \/ NextRW \/ NextSnowball \/ NextDFS \/ NextBFS

SpecTraversal == InitTraversal /\ [][NextTraversal]_vars

NextWalk == NextMH \/ NextRW

Next ==
    \/ NextTraversal
    \/ NextRandomEdge \/ NextInducedEdge
    \/ NextRandomNode \/ NextDegree

Spec == Init /\ [][Next]_vars

\* an accepted Metropolis-Hastings move to n (some draw below the ratio)
MHMove(n) == \E k \in 0..(DrawDen - 1) : MHStep(n, k) /\ Accepted(current_node, n, k)

\* The interpreter runs the loop on (weak fairness of the steps that end it),
\* and the random source is fair: a neighbor that can be chosen again and
\* again is chosen, and an acceptance that can be drawn again and again is
\* drawn (strong fairness of every move).
WalkFairness ==
    /\ WF_vars(WalkReturn)
    /\ WF_vars(WalkRaise)
    /\ \A n \in Universe : SF_vars(RWStep(n))
    /\ \A n \in Universe : SF_vars(MHMove(n))

SpecWalkFair == InitTraversal /\ [][NextWalk]_vars /\ WalkFairness

SpecWalk == InitTraversal /\ [][NextWalk]_vars

\* ------------------------------------------------------------ reachability
\* the nodes reachable from the set S along the edges Es
RECURSIVE ReachableFrom(_, _)
ReachableFrom(S, Es) ==
    LET more == S \cup {m \in UNION Es : \E n \in S : {n, m} \in Es}
    IN IF more = S THEN S ELSE ReachableFrom(more, Es)

Connected(Ns, Es) == \A n \in Ns : ReachableFrom({n}, Es) = Ns

\* --------------------------------------------------------------- claims
\* the nodes within distance d of the set S in G
RECURSIVE Ball(_, _)
Ball(S, d) ==
    IF d = 0 THEN S
    ELSE Ball(S \cup {m \in V : \E n \in S : {n, m} \in Gedges}, d - 1)

Distinct(lst) == \A i, j \in 1..Len(lst) : i # j => lst[i] # lst[j]

WalkInput == HasNode(start_node) /\ sample_size >= 1

InitialInput == Range(initial_nodes) \subseteq V /\ sample_size >= 1

\* a start or initial node that is not a node of G was supplied
AbsentStart ==
    \/ alg \in {"mh", "rw", "dfs"} /\ ~HasNode(start_node)
    \/ alg \in {"snowball", "bfs"} /\ ~(Range(initial_nodes) \subseteq V)

\* C1: for every graph, start node in G and target >= 1, the two walks run to
\* completion under a fair random source (the call eventually returns).
C1_WalksTerminate ==
    (alg \in {"mh", "rw"} /\ WalkInput) ~> (pc = "done")

\* C2: breadth_first_sampling returns at most sample_size nodes, for initial
\* nodes of G of any cardinality and every positive sample_size.
C2_BFSAtMostSampleSize ==
    (alg = "bfs" /\ pc = "done" /\ InitialInput) => Len(result) <= sample_size

\* C3: in snowball_sampling the accumulated sampled set never has more than
\* sample_size nodes, and neither has the returned list (initial nodes of G of
\* any cardinality, positive sample_size, any expand_depth).
C3_SnowballAtMostSampleSize ==
    (alg = "snowball" /\ InitialInput) =>
        /\ Cardinality(sampled_nodes) <= sample_size
        /\ pc = "done" => Len(result) <= sample_size

\* C4: in the five traversals a start or initial node absent from G ends the
\* call in an error: the call never returns.
C4_AbsentStartIsAnError ==
    (alg \in {"mh", "rw", "snowball", "dfs", "bfs"} /\ AbsentStart
        /\ sample_size >= 1) => pc # "done"

\* C5: for 0 <= k <= |V|, random_node_sampling(k) returns exactly k pairwise
\* distinct nodes of G.
C5_RandomNodesExactlyK ==
    (alg = "rnode" /\ sample_size <= Len(Gnodes)) =>
        /\ pc = "done"
        /\ Len(result) = sample_size
        /\ Distinct(result)
        /\ Range(result) \subseteq V

\* three of four nodes, returned in an order that is not the graph's
C5_Witness ==
    /\ alg = "rnode" /\ pc = "done"
    /\ Len(Gnodes) = 4 /\ sample_size = 3
    /\ Len(result) = 3 /\ result[1] > result[2]

\* C6: for k > |V|, random_node_sampling(k) fails with an error and returns
\* nothing.
C6_RandomNodesTooManyFails ==
    (alg = "rnode" /\ sample_size > Len(Gnodes)) =>
        /\ pc = "error" /\ error = "ValueError"
        /\ result = <<>>

\* one node more than the graph has was asked for
C6_Witness ==
    /\ alg = "rnode" /\ pc = "error"
    /\ Len(Gnodes) = 2 /\ sample_size = 3

\* c is the center of a star: it is joined to every other node, and there is
\* no other edge
IsStar(c) ==
    /\ HasNode(c) /\ Cardinality(V) >= 3
    /\ Gedges = {{c, m} : m \in V \ {c}}

\* C7: for 0 <= k <= |V|, degree_based_node_sampling(k) returns k distinct
\* nodes of G in non-increasing order of degree, no excluded node has a larger
\* degree than a returned one, and on a star with k = 1 it returns the center.
C7_DegreeTopK ==
    (alg = "degree" /\ pc = "done" /\ sample_size <= Len(Gnodes)) =>
        /\ Len(result) = sample_size
        /\ Distinct(result)
        /\ Range(result) \subseteq V
        /\ \A i, j \in 1..Len(result) :
              i < j => Degree(result[i]) >= Degree(result[j])
        /\ \A n \in V \ Range(result), m \in Range(result) : Degree(n) <= Degree(m)
        /\ \A c \in V : (IsStar(c) /\ sample_size = 1) => result = <<c>>

\* a star with three leaves whose center was inserted last, and k = 1
C7_Witness ==
    /\ alg = "degree" /\ pc = "done" /\ sample_size = 1
    /\ Len(Gnodes) = 4 /\ IsStar(Gnodes[4])
    /\ result = <<Gnodes[4]>>

C8_Sample ==
    (alg = "rw" /\ WalkInput) =>
        /\ Connected(sampled_nodes, sampled_edges)
        /\ Cardinality(sampled_edges) <= sample_size - 1
        /\ sampled_edges \subseteq Gedges

C8_Step ==
    (alg = "rw" /\ WalkInput) =>
        \A e \in sampled_edges' \ sampled_edges :
            /\ e = {current_node, current_node'}
            /\ current_node' = next_node'
            /\ e \in Gedges

\* C8: in every state of random_walk_sampling (start in G, sample_size >= 1)
\* the sample is connected and has at most sample_size - 1 edges, and every
\* edge enters the sample in a step that moves the walk along that edge of G.
C8_WalkSampleIsTree == []C8_Sample /\ [][C8_Step]_vars

\* a returned walk that filled a target of 3 inside a part of G with a cycle
C8_Witness ==
    /\ alg = "rw" /\ pc = "done" /\ WalkInput
    /\ sample_size >= 3
    /\ Cardinality(sampled_edges) = sample_size - 1
    /\ Pairs(sampled_nodes) \cap Gedges # sampled_edges

\* C9: a rejected Metropolis-Hastings step changes neither the current node
\* nor the sample's nodes and edges; the current node changes only in an
\* accepted step, and then to the chosen neighbor.
C9_RejectedStepKeepsState ==
    [][(alg = "mh" /\ pc = "loop" /\ pc' = "loop") =>
          /\ ~Accepted(current_node, next_node', u') =>
                /\ current_node' = current_node
                /\ sampled_nodes' = sampled_nodes
                /\ sampled_edges' = sampled_edges
          /\ current_node' # current_node =>
                /\ Accepted(current_node, next_node', u')
                /\ current_node' = next_node']_vars

\* the state right after a rejected step towards a node not yet sampled
C9_Witness ==
    /\ alg = "mh" /\ pc = "loop"
    /\ next_node \in Neighbors(current_node)
    /\ ~Accepted(current_node, next_node, u)
    /\ next_node \notin sampled_nodes

SnowballInput == alg = "snowball" /\ Range(initial_nodes) \subseteq V

\* round d = round + 1 is under way while pc is "nodes" or "for"
C10_Step ==
    SnowballInput =>
        /\ \A x \in sampled_nodes' \ sampled_nodes :
              /\ pc = "for" /\ round < expand_depth
              /\ node \in to_expand
              /\ x \in Neighbors(node)
        /\ pc \in {"nodes", "for"} =>
              next_expand' = next_expand \cup (sampled_nodes' \ sampled_nodes)
        /\ (pc = "round" /\ pc' = "nodes") => next_expand' = {}
        /\ to_expand' # to_expand => (round' = round + 1 /\ to_expand' = next_expand)

C10_Sample ==
    SnowballInput =>
        /\ round = 0 => to_expand = Range(initial_nodes)
        /\ round <= expand_depth
        /\ sampled_nodes \subseteq
              Ball(Range(initial_nodes),
                   IF pc \in {"nodes", "for"} THEN round + 1 ELSE round)
        /\ pc = "done" => Range(result) \subseteq Ball(Range(initial_nodes), expand_depth)

\* C10: snowball_sampling admits at round d only neighbors of a node admitted
\* at round d-1 (of an initial node for d = 1): an admitted node is a neighbor
\* of the to_expand node being expanded, to_expand is the initial set in round
\* 1 and afterwards the set next_expand of the nodes admitted in the round
\* before; so every returned node is within distance expand_depth of an
\* initial node.
C10_SnowballRounds == []C10_Sample /\ [][C10_Step]_vars

\* a returned node at distance 2 from the initial set, admitted in round 2
C10_Witness ==
    /\ SnowballInput /\ pc = "done" /\ expand_depth = 2 /\ round = 2
    /\ \E x \in Range(result) : x \notin Ball(Range(initial_nodes), 1)

\* the initial node(s) of the frontier methods, all of them nodes of G
Sources == IF alg = "dfs" THEN {start_node} ELSE Range(initial_nodes)

FrontierInput == alg \in {"dfs", "bfs"} /\ Sources \subseteq V

\* C11: depth_first_sampling from an initial node of G never holds more than
\* sample_size visited nodes, in any state and in the returned list, for every
\* sample_size >= 0.
C11_DFSAtMostSampleSize ==
    (alg = "dfs" /\ HasNode(start_node)) =>
        /\ Cardinality(sampled_nodes) <= sample_size
        /\ pc = "done" => Len(result) <= sample_size

\* the target stopped the search while nodes were still waiting on the stack
C11_Witness ==
    /\ alg = "dfs" /\ pc = "done" /\ HasNode(start_node)
    /\ sample_size >= 2 /\ Len(result) = sample_size
    /\ \E i \in 1..Len(stack) : stack[i] \notin sampled_nodes

\* C12: every node depth_first_sampling or breadth_first_sampling returns is
\* a node of G reachable from an initial node along edges of G (initial nodes
\* in G, any sample size).
C12_FrontierResultReachable ==
    (FrontierInput /\ pc = "done") =>
        Range(result) \subseteq (V \cap ReachableFrom(Sources, Gedges))

\* the search ran out of reachable nodes below the target, a node of G being
\* out of reach
C12_Witness ==
    /\ FrontierInput /\ pc = "done"
    /\ Len(result) >= 2 /\ Len(result) < sample_size
    /\ \E y \in V : y \notin ReachableFrom(Sources, Gedges)

\* C13: for k >= 0, induced_edge_sampling(k) returns at most min(k, 2*|E|)
\* ordered pairs, each along an edge of G, and no ordered pair twice (so an
\* edge appears at most once in each direction).
C13_InducedEdgesBounded ==
    (alg = "iedge" /\ pc = "done") =>
        /\ Len(result) <= Min(sample_size, 2 * Cardinality(Gedges))
        /\ \A i \in 1..Len(result) : {result[i][1], result[i][2]} \in Gedges
        /\ Distinct(result)

\* an edge returned in both directions, with the quota not filled
C13_Witness ==
    /\ alg = "iedge" /\ pc = "done"
    /\ Len(result) = 2 * Cardinality(Gedges) /\ Len(result) < sample_size
    /\ \E i, j \in 1..Len(result) :
          result[i] = <<result[j][2], result[j][1]>>

\* C14: metropolis_hastings_sampling never divides by a zero degree: no call
\* ends in ZeroDivisionError, and every iteration that gets past the dead-end
\* check (start node in G) finds degree(current_node) > 0 and goes on.
C14_NoZeroDivision ==
    /\ [](alg = "mh" => error # "ZeroDivisionError")
    /\ [][(alg = "mh" /\ WalkInput /\ pc = "loop" /\ pc' # "done") =>
             (Degree(current_node) > 0 /\ pc' = "loop")]_vars

\* the walk has just moved to a node of smaller degree on a non-zero draw
C14_Witness ==
    /\ alg = "mh" /\ pc = "loop" /\ WalkInput
    /\ current_node = next_node
    /\ \E prev \in sampled_nodes :
          /\ {prev, current_node} \in sampled_edges
          /\ Degree(current_node) < Degree(prev)
    /\ u >= 1

\* C15: a dead end is not an error for either walk: when the current node is
\* a node of G without neighbors and the target is not reached, the next step
\* is the return, with no error, and the sample returned is the start node
\* alone with no edges.
C15_DeadEndReturnsPartialSample ==
    [][(/\ alg \in {"mh", "rw"} /\ pc = "loop"
        /\ HasNode(current_node) /\ Neighbors(current_node) = {}
        /\ Cardinality(sampled_nodes) < sample_size) =>
           (/\ pc' = "done" /\ error' = ""
            /\ sampled_nodes' = {start_node} /\ sampled_edges' = {})]_vars

\* a walk asked for two or more nodes has returned from an isolated start
\* node of a graph that has an edge elsewhere
C15_Witness ==
    /\ alg \in {"mh", "rw"} /\ pc = "done" /\ error = ""
    /\ HasNode(start_node) /\ Neighbors(start_node) = {}
    /\ sample_size >= 2
    /\ sampled_nodes = {start_node} /\ sampled_edges = {}
    /\ Gedges # {}

\* C16: random_edge_sampling(k), k >= 0, raises no error and returns exactly
\* min(k, |E|) edges, each an edge of G, no edge twice.
C16_RandomEdgesExactlyMin ==
    (alg = "redge") =>
        /\ pc = "done" /\ error = ""
        /\ Len(result) = Min(sample_size, Cardinality(Gedges))
        /\ \A i \in 1..Len(result) : {result[i][1], result[i][2]} \in Gedges
        /\ \A i, j \in 1..Len(result) :
              i # j => {result[i][1], result[i][2]} # {result[j][1], result[j][2]}

\* more edges were asked for than the graph's two or more edges
C16_Witness ==
    /\ alg = "redge" /\ pc = "done"
    /\ Cardinality(Gedges) >= 2
    /\ sample_size > Cardinality(Gedges)
    /\ Len(result) = Cardinality(Gedges)

\* C17: snowball_sampling, depth_first_sampling and breadth_first_sampling,
\* called with initial node(s) in G and any sample size and depth, return,
\* whatever the shuffles give.
C17_SearchesTerminate ==
    (alg \in {"snowball", "dfs", "bfs"} /\ Sources \subseteq V) ~> (pc = "done")

\* a depth-first search has returned below its target because its stack
\* emptied
C17_Witness ==
    /\ alg = "dfs" /\ pc = "done" /\ HasNode(start_node)
    /\ stack = <<>>
    /\ Len(result) >= 2 /\ Len(result) < sample_size

\* C18: in depth_first_sampling, the step that pops an unvisited node and
\* marks it visited pushes at most sample_size - |visited| of its neighbors,
\* the visited set counted with the node just marked.
C18_DFSPushesFit ==
    [][(/\ alg = "dfs" /\ pc = "loop" /\ pc' = "loop"
        /\ HasNode(start_node)
        /\ sampled_nodes' # sampled_nodes) =>
           Len(stack') - (Len(stack) - 1)
              <= sample_size - Cardinality(sampled_nodes')]_vars

C20_FrontierSampleSize ==
    (/\ FrontierInput /\ pc = "done" /\ sample_size >= 1
     /\ alg = "bfs" => Cardinality(Range(initial_nodes)) <= sample_size) =>
        /\ Len(result) = Min(sample_size,
                             Cardinality(ReachableFrom(Sources, Gedges)))
        /\ Distinct(result)

\* a search has returned a full sample of two or more nodes with reachable
\* nodes left over
C20_Witness ==
    /\ FrontierInput /\ pc = "done"
    /\ alg = "bfs" => Cardinality(Range(initial_nodes)) <= sample_size
    /\ sample_size >= 2
    /\ Len(result) = sample_size
    /\ sample_size < Cardinality(ReachableFrom(Sources, Gedges))

====
